---- MODULE Spec2Model ----
(***************************************************************************)
(* Model of ExcelService (src/services/excelService.ts): the unprotect     *)
(* flow unprotectFile / processModernFile over a zip package of XML parts. *)
(*                                                                         *)
(* A file is a name (a sequence of characters), its leading bytes, and the *)
(* package the zip codec decodes from it (when it is a valid container).   *)
(* A part's content is XML text, modelled as a sequence of tag tokens; a   *)
(* parsed document is the sequence of its elements in document order, each *)
(* with its nesting depth.  Parsing and serialising are computed, so a     *)
(* rewritten part differs from the text it was read from.                  *)
(***************************************************************************)
EXTENDS Integers, Sequences, FiniteSets, TLC

(***************************************************************************)
(* Bounds of the model                                                     *)
(***************************************************************************)
\* number of successive unprotectFile runs (run r+1 takes the output of run r)
MaxRuns == 2
\* largest number of protection elements written into one generated part
MaxInstances == 2

(***************************************************************************)
(* Strings as character sequences: file names and error messages           *)
(***************************************************************************)
Upper == <<"A", "X", "L", "S", "B", "K">>
Lower == <<"a", "x", "l", "s", "b", "k">>

\* String.prototype.toLowerCase, one character
LowerChar(c) ==
  IF \E i \in 1..Len(Upper) : Upper[i] = c
  THEN Lower[CHOOSE i \in 1..Len(Upper) : Upper[i] = c]
  ELSE c

\* String.prototype.toLowerCase
ToLowerCase(s) == [i \in 1..Len(s) |-> LowerChar(s[i])]

\* String.prototype.endsWith
EndsWith(s, suffix) ==
  /\ Len(s) >= Len(suffix)
  /\ SubSeq(s, Len(s) - Len(suffix) + 1, Len(s)) = suffix

\* String.prototype.includes (messages are sequences of words)
Includes(s, sub) ==
  \E i \in 0..(Len(s) - Len(sub)) : SubSeq(s, i + 1, i + Len(sub)) = sub

DotXlsx == <<".", "x", "l", "s", "x">>

\* variant: the test written with includes(".xlsx") instead of endsWith
ExtensionOkIncludes(name) == Includes(ToLowerCase(name), DotXlsx)

\* !file.name.toLowerCase().endsWith(".xlsx") is the rejection test
ExtensionOk(name) == EndsWith(ToLowerCase(name), DotXlsx)

(***************************************************************************)
(* Error messages (words; punctuation dropped)                             *)
(***************************************************************************)
MsgUnsupported ==
  <<"Only", ".xlsx", "files", "are", "supported">>
MsgEncrypted ==
  <<"This", "file", "is", "encrypted", "with", "a", "Password", "to", "Open">>
MsgCorrupt ==
  <<"Could", "not", "read", ".xlsx", "file", "structure",
    "The", "file", "might", "be", "corrupted", "or", "encrypted">>
MsgGeneric ==
  <<"Failed", "to", "process", "the", "Excel", "file">>

PasswordToOpen == <<"Password", "to", "Open">>
Password == <<"Password">>

(***************************************************************************)
(* Encryption detector: the first 8 bytes                                  *)
(***************************************************************************)
HeaderLen == 8

\* Blob.slice(0, 8): the first 8 bytes, or all of them when there are fewer
Slice(bytes, n) == SubSeq(bytes, 1, IF Len(bytes) < n THEN Len(bytes) ELSE n)

\* variant: the word read little-endian, getUint32(off, true)
GetUint32LittleEndian(buf, off) ==
  << buf[off + 4] * 256 + buf[off + 3], buf[off + 2] * 256 + buf[off + 1] >>

\* DataView.getUint32(off, false): the big-endian word at offset off, kept as
\* its two 16-bit halves <<high, low>> (a 32-bit word exceeds the checker's
\* integers)
GetUint32(buf, off) ==
  << buf[off + 1] * 256 + buf[off + 2], buf[off + 3] * 256 + buf[off + 4] >>

\* 0xd0cf11e0 and 0xa1b11ae1 as <<high, low>> halves
Magic1 == << 53455, 4576 >>
Magic2 == << 41393, 6881 >>

\* variant: the two words of the signature joined with || instead of &&
IsEncryptedEither(headerBuffer) ==
  /\ Len(headerBuffer) >= HeaderLen
  /\ \/ GetUint32(headerBuffer, 0) = Magic1
     \/ GetUint32(headerBuffer, 4) = Magic2

\* headerBuffer.byteLength >= 8 && magic1 === 0xd0cf11e0 && magic2 === 0xa1b11ae1
IsEncrypted(headerBuffer) ==
  /\ Len(headerBuffer) >= HeaderLen
  /\ GetUint32(headerBuffer, 0) = Magic1
  /\ GetUint32(headerBuffer, 4) = Magic2

\* catch (e) { if (e.message && e.message.includes("Password to Open")) throw e; }
HeaderCatchRethrows(msg) == Len(msg) > 0 /\ Includes(msg, PasswordToOpen)

\* the outer catch throws a new Error unless the one it received is
\* password-related, which it rethrows
OuterCatchWraps(msg) ==
  ~(Len(msg) > 0 /\ (Includes(msg, PasswordToOpen) \/ Includes(msg, Password)))

\* variant: every other error replaced by the one generic message
OuterCatchGeneric(msg) ==
  IF Len(msg) > 0 /\ (Includes(msg, PasswordToOpen) \/ Includes(msg, Password))
  THEN msg
  ELSE MsgGeneric

\* the outer catch of unprotectFile: a password-related error is rethrown as
\* it is, any other one is wrapped as new Error(error.message || generic)
OuterCatch(msg) ==
  IF Len(msg) > 0 /\ (Includes(msg, PasswordToOpen) \/ Includes(msg, Password))
  THEN msg
  ELSE IF Len(msg) > 0 THEN msg ELSE MsgGeneric

(***************************************************************************)
(* XML text, documents, parse and serialise                                *)
(***************************************************************************)
\* start tags, end tags, empty-element tags and character data; a tag has a
\* prefix, a local name, the namespace it resolves to and its attributes
OpenA(p, l, ns, attrs) ==
  [k |-> "open", prefix |-> p, local |-> l, ns |-> ns, attrs |-> attrs]
EmptyA(p, l, ns, attrs) ==
  [k |-> "empty", prefix |-> p, local |-> l, ns |-> ns, attrs |-> attrs]
Open(p, l)  == OpenA(p, l, "", {})
Empty(p, l) == EmptyA(p, l, "", {})
Close(p, l) == [k |-> "close", prefix |-> p, local |-> l]
Text(v) == [k |-> "text", value |-> v]

\* an element of a document: its text is a sequence of pieces, "" is <<>>
ElA(p, l, d, ns, attrs, text) ==
  [prefix |-> p, local |-> l, depth |-> d, ns |-> ns, attrs |-> attrs,
   text |-> text]
El(p, l, d) == ElA(p, l, d, "", {}, <<>>)

\* the document DOMParser yields for text that is not well-formed
ParserErrorDoc == << El("", "parsererror", 0) >>

\* stack holds the indices in els of the elements still open
RECURSIVE ParseFrom(_, _, _, _, _)
ParseFrom(text, i, stack, els, roots) ==
  IF i > Len(text)
  THEN IF stack = <<>> /\ roots = 1 THEN els ELSE ParserErrorDoc
  ELSE LET t == text[i]
           atTop == stack = <<>>
           top == stack[Len(stack)]
       IN CASE t.k = "close" ->
                 IF ~atTop /\ els[top].prefix = t.prefix
                          /\ els[top].local = t.local
                 THEN ParseFrom(text, i + 1, SubSeq(stack, 1, Len(stack) - 1),
                                els, roots)
                 ELSE ParserErrorDoc
            [] t.k = "text" ->
                 IF atTop
                 THEN ParserErrorDoc
                 ELSE ParseFrom(text, i + 1, stack,
                                [els EXCEPT ![top].text = @ \o t.value], roots)
            [] OTHER ->
                 IF atTop /\ roots >= 1
                 THEN ParserErrorDoc
                 ELSE ParseFrom(text, i + 1,
                                IF t.k = "open" THEN Append(stack, Len(els) + 1)
                                                ELSE stack,
                                Append(els, ElA(t.prefix, t.local, Len(stack),
                                                t.ns, t.attrs, <<>>)),
                                IF atTop THEN roots + 1 ELSE roots)

\* DOMParser.parseFromString(content, "application/xml")
Parse(text) == ParseFrom(text, 1, <<>>, <<>>, 0)

\* closing tags of the open elements of depth >= d, innermost first
RECURSIVE CloseDownTo(_, _)
CloseDownTo(stack, d) ==
  IF stack = <<>> \/ stack[Len(stack)].depth < d
  THEN <<>>
  ELSE << Close(stack[Len(stack)].prefix, stack[Len(stack)].local) >>
         \o CloseDownTo(SubSeq(stack, 1, Len(stack) - 1), d)

RECURSIVE KeepBelow(_, _)
KeepBelow(stack, d) ==
  IF stack = <<>> \/ stack[Len(stack)].depth < d
  THEN stack
  ELSE KeepBelow(SubSeq(stack, 1, Len(stack) - 1), d)

RECURSIVE SerializeFrom(_, _, _)
SerializeFrom(els, i, stack) ==
  IF i > Len(els)
  THEN CloseDownTo(stack, 0)
  ELSE LET e == els[i]
           hasChild == i < Len(els) /\ els[i + 1].depth > e.depth
           below == KeepBelow(stack, e.depth)
           chars == IF e.text = <<>> THEN <<>> ELSE << Text(e.text) >>
       IN CloseDownTo(stack, e.depth)
            \o (IF hasChild
                THEN << OpenA(e.prefix, e.local, e.ns, e.attrs) >> \o chars
                       \o SerializeFrom(els, i + 1, Append(below, e))
                ELSE IF e.text # <<>>
                THEN << OpenA(e.prefix, e.local, e.ns, e.attrs) >> \o chars
                       \o << Close(e.prefix, e.local) >>
                       \o SerializeFrom(els, i + 1, below)
                ELSE << EmptyA(e.prefix, e.local, e.ns, e.attrs) >>
                       \o SerializeFrom(els, i + 1, below))

\* XMLSerializer.serializeToString(doc): a childless element without text
\* is written as an empty-element tag
SerializeToString(doc) == SerializeFrom(doc, 1, <<>>)

\* Element.tagName of an XML element: the qualified name (prefix, local name)
QName(e) == << e.prefix, e.local >>

\* Document.getElementsByTagName(name) on an XML document: the elements whose
\* qualified name is name, in document order (as indices)
GetElementsByTagName(doc, name) ==
  { i \in 1..Len(doc) : QName(doc[i]) = << "", name >> }

\* variant: the guard written tags.length >= 0
HasTagsAlways(tags) == Cardinality(tags) >= 0

\* tags.length > 0
HasTags(tags) == Cardinality(tags) > 0

Min(S) == CHOOSE x \in S : \A y \in S : x <= y

\* one past the last element of the subtree rooted at element i
SubtreeEnd(doc, i) ==
  LET after == { j \in (i + 1)..Len(doc) : doc[j].depth <= doc[i].depth }
  IN IF after = {} THEN Len(doc) + 1 ELSE Min(after)

\* parentNode.removeChild(el): the element goes with its subtree
RemoveChild(doc, i) ==
  SubSeq(doc, 1, i - 1) \o SubSeq(doc, SubtreeEnd(doc, i), Len(doc))

\* variant: if (tags.length > 0) instead of while: only the first element goes
RemoveFirstOnly(doc, name) ==
  LET tags == GetElementsByTagName(doc, name)
  IN IF tags = {} THEN doc ELSE RemoveChild(doc, Min(tags))

\* while (tags.length > 0) tags[0].parentNode?.removeChild(tags[0]);
\* tags is a live collection
RECURSIVE RemoveAll(_, _)
RemoveAll(doc, name) ==
  LET tags == GetElementsByTagName(doc, name)
  IN IF Cardinality(tags) > 0
     THEN RemoveAll(RemoveChild(doc, Min(tags)), name)
     ELSE doc

(***************************************************************************)
(* Package: entry path -> entry                                            *)
(***************************************************************************)
\* an entry path "seg/seg/name.ext"; a directory entry ends in "/"
FilePath(segs, ext) == [segs |-> segs, ext |-> ext, dir |-> FALSE]
DirPath(segs) == [segs |-> segs, ext |-> "", dir |-> TRUE]

WorkbookPath == FilePath(<<"xl", "workbook">>, "xml")
WorksheetsFolder == DirPath(<<"xl", "worksheets">>)
XlFolder == DirPath(<<"xl">>)
Sheet1Path == FilePath(<<"xl", "worksheets", "sheet1">>, "xml")
Sheet2Path == FilePath(<<"xl", "worksheets", "sheet2">>, "xml")
SheetRelsPath == FilePath(<<"xl", "worksheets", "_rels", "sheet1.xml">>, "rels")
CorePath == FilePath(<<"docProps", "core">>, "xml")
AppPath == FilePath(<<"docProps", "app">>, "xml")
DocPropsFolder == DirPath(<<"docProps">>)

Paths ==
  { WorkbookPath, Sheet1Path, Sheet2Path, SheetRelsPath, CorePath, AppPath,
    XlFolder, WorksheetsFolder, DocPropsFolder }

Absent == [kind |-> "absent"]
DirEntry == [kind |-> "dir"]
FileEntry(text) == [kind |-> "file", data |-> text]

\* loadedZip.file(path): the entry, or null
HasFile(zip, path) == zip[path].kind = "file"

\* loadedZip.file(path, data): the entry is set, and the directory entries of
\* the folders on its path are added when the package has none (the
\* createFolders option, on by default)
PutFile(zip, path, text) ==
  [p \in Paths |->
     IF p = path
     THEN FileEntry(text)
     ELSE IF /\ p.dir
             /\ Len(path.segs) > Len(p.segs)
             /\ SubSeq(path.segs, 1, Len(p.segs)) = p.segs
             /\ zip[p].kind = "absent"
          THEN DirEntry
          ELSE zip[p]]

\* relativePath.endsWith(".xml")
EndsWithXml(path) == ~path.dir /\ path.ext = "xml"

\* the entries forEach visits under a folder: a name that starts with the
\* folder's name and has a non-empty remainder
InFolder(path, folder) ==
  /\ Len(path.segs) > Len(folder.segs)
  /\ SubSeq(path.segs, 1, Len(folder.segs)) = folder.segs

\* the relativePath forEach passes, and `xl/worksheets/${wsPath}`
RelativePath(path, folder) ==
  [path EXCEPT !.segs = SubSeq(path.segs, Len(folder.segs) + 1, Len(path.segs))]
FullPath(rel, folder) == [rel EXCEPT !.segs = folder.segs \o rel.segs]

\* JSZip.folder(name) adds the directory entry, and its parents', when the
\* package has none
Folder(zip) ==
  [p \in Paths |->
     IF p \in {XlFolder, WorksheetsFolder} /\ zip[p].kind = "absent"
     THEN DirEntry ELSE zip[p]]

\* worksheetFiles as a set: relative paths under xl/worksheets ending in .xml
WorksheetFileSet(zip) ==
  { RelativePath(p, WorksheetsFolder) :
      p \in { q \in Paths : /\ zip[q].kind # "absent"
                            /\ InFolder(q, WorksheetsFolder)
                            /\ EndsWithXml(q) } }

\* the enumeration orders of a set (the order of the package's entries)
Orders(S) ==
  { s \in [1..Cardinality(S) -> S] : \A i, j \in 1..Cardinality(S) :
                                       i # j => s[i] # s[j] }

(***************************************************************************)
(* Input universe                                                          *)
(***************************************************************************)
RECURSIVE Repeat(_, _)
Repeat(tok, k) == IF k = 0 THEN <<>> ELSE << tok >> \o Repeat(tok, k - 1)

\* a workbook part with k workbookProtection elements under prefix p
WorkbookText(p, k) ==
  << Open(p, "workbook") >> \o Repeat(Empty(p, "workbookProtection"), k)
    \o << Open(p, "sheets"), Close(p, "sheets"), Close(p, "workbook") >>

\* a worksheet part with k sheetProtection elements under prefix p
SheetText(p, k) ==
  << Open(p, "worksheet"), Open(p, "sheetData"), Close(p, "sheetData") >>
    \o Repeat(Empty(p, "sheetProtection"), k) \o << Close(p, "worksheet") >>

\* a sheetProtection element that has a child element
SheetNestedText ==
  << Open("", "worksheet"), Empty("", "sheetData"),
     Open("", "sheetProtection"), Empty("", "sheetProtection"),
     Close("", "sheetProtection"), Close("", "worksheet") >>

\* text that is not well-formed (an unclosed root)
SheetMalformedText ==
  << Open("", "worksheet"), Empty("", "sheetData") >>

RelsText == << Open("", "Relationships"), Close("", "Relationships") >>
CoreText == << Open("cp", "coreProperties"), Close("cp", "coreProperties") >>
AppText == << Open("", "Properties"), Close("", "Properties") >>

Prefixes == { "", "x" }

WorkbookEntries ==
  { Absent } \cup
  { FileEntry(WorkbookText(p, k)) : p \in Prefixes, k \in 0..MaxInstances }
Sheet1Entries ==
  { Absent, FileEntry(SheetNestedText), FileEntry(SheetMalformedText) } \cup
  { FileEntry(SheetText(p, k)) : p \in Prefixes, k \in 0..MaxInstances }
Sheet2Entries ==
  { Absent } \cup { FileEntry(SheetText("", k)) : k \in 0..1 }

Packages ==
  { [p \in Paths |->
       CASE p = WorkbookPath -> wb
         [] p = Sheet1Path -> s1
         [] p = Sheet2Path -> s2
         [] p = SheetRelsPath -> IF aux THEN FileEntry(RelsText) ELSE Absent
         [] p = CorePath -> IF aux THEN FileEntry(CoreText) ELSE Absent
         [] p = AppPath -> IF aux THEN FileEntry(AppText) ELSE Absent
         [] OTHER -> IF dirs THEN DirEntry ELSE Absent] :
      wb \in WorkbookEntries, s1 \in Sheet1Entries, s2 \in Sheet2Entries,
      aux \in BOOLEAN, dirs \in BOOLEAN }

EmptyPackage == [p \in Paths |-> Absent]

Names ==
  { << "a", ".", "x", "l", "s", "x" >>,
    << "A", ".", "X", "L", "S", "X" >>,
    << "a", ".", "x", "l", "s" >>,
    << "a", ".", "x", "l", "s", "x", ".", "b", "a", "k" >>,
    << "x", "l", "s", "x" >> }

\* D0 CF 11 E0 A1 B1 1A E1, the compound-file signature
OleSignature == << 208, 207, 17, 224, 161, 177, 26, 225 >>
\* the first bytes of a zip container (local file header)
ZipSignature == << 80, 75, 3, 4, 20, 0, 0, 0 >>

\* leading bytes of files that are not zip containers
OtherHeads ==
  { OleSignature,
    << 208, 207, 17, 224, 0, 0, 0, 0 >>,
    << 0, 0, 0, 0, 161, 177, 26, 225 >>,
    << 224, 17, 207, 208, 225, 26, 177, 161 >>,
    << 208, 207, 17, 224, 161, 177, 26 >>,
    << 0, 0, 0, 0 >>,
    <<>> }

\* a file: its name, its leading bytes, and what the zip codec decodes from
\* it. A zip container is read from its end, so a valid one may also start
\* with other bytes.
Files ==
  { [name |-> n, bytes |-> b, zipOk |-> TRUE, pkg |-> g] :
      n \in Names, b \in { ZipSignature, OleSignature }, g \in Packages }
  \cup
  { [name |-> n, bytes |-> b, zipOk |-> FALSE, pkg |-> EmptyPackage] :
      n \in Names, b \in OtherHeads \cup { ZipSignature } }

(***************************************************************************)
(* Document properties: values, dates, elements of the property parts      *)
(***************************************************************************)
\* a key of ExcelProperties is undefined or holds a value: a text (a
\* sequence of pieces, "" is <<>>), a Date or a boolean
Undefined == [def |-> FALSE]
Defined(v) == [def |-> TRUE, v |-> v]

\* a Date holds a time value in milliseconds, or NaN (an Invalid Date)
InvalidDate == [valid |-> FALSE]
DateOf(ms) == [valid |-> TRUE, ms |-> ms]

\* the time values of the dates: instants of the first minute of the epoch
Instants == { 0, 1500, 34000, 59999 }

Digits == << "0", "1", "2", "3", "4", "5", "6", "7", "8", "9" >>
Digit(n) == Digits[n + 1]
IsDigit(c) == \E n \in 0..9 : Digits[n + 1] = c
DigitValue(c) == CHOOSE n \in 0..9 : Digits[n + 1] = c

Minute == "1970-01-01T00:00:"

\* Date.prototype.toISOString() of a valid date: seconds on two digits,
\* milliseconds on three, then Z
ToISOString(date) ==
  LET s == date.ms \div 1000
      f == date.ms % 1000
  IN << Minute, Digit(s \div 10), Digit(s % 10), ".",
        Digit(f \div 100), Digit((f \div 10) % 10), Digit(f % 10), "Z" >>

\* toISOString() throws a RangeError on an Invalid Date
ToISOStringThrows(date) == ~date.valid

\* the same instant as a producer writes it that leaves the fraction out
IsoSeconds(s) == << Minute, Digit(s \div 10), Digit(s % 10), "Z" >>

\* new Date(text): the instant of a date-time text, with or without the
\* fraction of a second; an Invalid Date for any other text
NewDate(text) ==
  IF /\ Len(text) = 8
     /\ text[1] = Minute /\ text[4] = "." /\ text[8] = "Z"
     /\ \A i \in {2, 3, 5, 6, 7} : IsDigit(text[i])
     /\ DigitValue(text[2]) < 6
  THEN DateOf(DigitValue(text[2]) * 10000 + DigitValue(text[3]) * 1000
              + DigitValue(text[5]) * 100 + DigitValue(text[6]) * 10
              + DigitValue(text[7]))
  ELSE IF /\ Len(text) = 4
          /\ text[1] = Minute /\ text[4] = "Z"
          /\ IsDigit(text[2]) /\ IsDigit(text[3])
          /\ DigitValue(text[2]) < 6
       THEN DateOf(DigitValue(text[2]) * 10000 + DigitValue(text[3]) * 1000)
       ELSE InvalidDate

\* Node.textContent: the text of the element and of its descendants
RECURSIVE TextFrom(_, _, _)
TextFrom(doc, i, end) ==
  IF i >= end THEN <<>> ELSE doc[i].text \o TextFrom(doc, i + 1, end)
TextContent(doc, i) == TextFrom(doc, i, SubtreeEnd(doc, i))

\* el.textContent = value: the children go, the text is value
SetTextContent(doc, i, value) ==
  SubSeq(doc, 1, i - 1) \o << [doc[i] EXCEPT !.text = value] >>
    \o SubSeq(doc, SubtreeEnd(doc, i), Len(doc))

\* variant: doc.getElementsByTagName(localName), which goes by qualified name
ByQualifiedName(doc, localName) ==
  { i \in 1..Len(doc) : doc[i].local = localName /\ doc[i].prefix = "" }

\* doc.getElementsByTagName("*") filtered on localName, in document order
ByLocalName(doc, localName) ==
  { i \in 1..Len(doc) : doc[i].local = localName }

\* doc.documentElement.appendChild(el)
AppendToRoot(doc, el) == Append(doc, [el EXCEPT !.depth = 1])

\* el.setAttributeNS(ns, "prefix:local", value): replaces the attribute of
\* that name
SetAttribute(doc, i, p, l, value) ==
  [doc EXCEPT ![i].attrs =
     { a \in @ : ~(a.prefix = p /\ a.local = l) }
       \cup { [prefix |-> p, local |-> l, value |-> value] }]

\* the namespaces of updateProperties
DcNS == "http://purl.org/dc/elements/1.1/"
CpNS == "http://schemas.openxmlformats.org/package/2006/metadata/core-properties"
DctermsNS == "http://purl.org/dc/terms/"
DcmitypeNS == "http://purl.org/dc/dcmitype/"
XsiNS == "http://www.w3.org/2001/XMLSchema-instance"
ExtNS == "http://schemas.openxmlformats.org/officeDocument/2006/extended-properties"
VtNS == "http://schemas.openxmlformats.org/officeDocument/2006/docPropsVTypes"

Xmlns(p, ns) == [prefix |-> "xmlns", local |-> p, value |-> ns]
XsiType == [prefix |-> "xsi", local |-> "type", value |-> "dcterms:W3CDTF"]

\* the text keys of the core part, in the order updateProperties applies
\* them: key, local name of the element, namespace of a created element
CoreTags ==
  << [key |-> "title", local |-> "title", ns |-> DcNS],
     [key |-> "subject", local |-> "subject", ns |-> DcNS],
     [key |-> "creator", local |-> "creator", ns |-> DcNS],
     [key |-> "keywords", local |-> "keywords", ns |-> CpNS],
     [key |-> "description", local |-> "description", ns |-> DcNS],
     [key |-> "lastModifiedBy", local |-> "lastModifiedBy", ns |-> CpNS],
     [key |-> "category", local |-> "category", ns |-> CpNS],
     [key |-> "contentStatus", local |-> "contentStatus", ns |-> CpNS],
     [key |-> "revision", local |-> "revision", ns |-> CpNS],
     [key |-> "language", local |-> "language", ns |-> DcNS] >>

\* the date keys of the core part; key and local name are the same
DateTags == << "created", "modified", "lastPrinted" >>

\* the keys of the extended-properties part
AppTags ==
  << [key |-> "company", local |-> "Company", isBoolean |-> FALSE],
     [key |-> "manager", local |-> "Manager", isBoolean |-> FALSE],
     [key |-> "programName", local |-> "Application", isBoolean |-> FALSE],
     [key |-> "version", local |-> "AppVersion", isBoolean |-> FALSE],
     [key |-> "scale", local |-> "ScaleCrop", isBoolean |-> TRUE],
     [key |-> "linksDirty", local |-> "LinksUpToDate", isBoolean |-> TRUE] >>

CoreTextKeys == { CoreTags[i].key : i \in 1..Len(CoreTags) }
DateKeys == { DateTags[i] : i \in 1..Len(DateTags) }
AppKeys == { AppTags[i].key : i \in 1..Len(AppTags) }
AppTextKeys == { AppTags[i].key : i \in { j \in 1..Len(AppTags) :
                                            ~AppTags[j].isBoolean } }
BooleanKeys == AppKeys \ AppTextKeys
CoreKeys == CoreTextKeys \cup DateKeys
Keys == CoreKeys \cup AppKeys

\* the local name of the element that holds a key
LocalOf(key) ==
  IF key \in CoreTextKeys
  THEN (CHOOSE t \in { CoreTags[i] : i \in 1..Len(CoreTags) } :
          t.key = key).local
  ELSE IF key \in AppKeys
  THEN (CHOOSE t \in { AppTags[i] : i \in 1..Len(AppTags) } :
          t.key = key).local
  ELSE key

\* the part that holds a key
PartOf(key) == IF key \in AppKeys THEN AppPath ELSE CorePath

\* {} as ExcelProperties
EmptyProps == [k \in Keys |-> Undefined]

\* the templates of a part the package lacks
CoreTemplate ==
  << OpenA("cp", "coreProperties", CpNS,
           { Xmlns("cp", CpNS), Xmlns("dc", DcNS), Xmlns("dcterms", DctermsNS),
             Xmlns("dcmitype", DcmitypeNS), Xmlns("xsi", XsiNS) }),
     Close("cp", "coreProperties") >>
AppTemplate ==
  << OpenA("", "Properties", ExtNS, { Xmlns("", ExtNS), Xmlns("vt", VtNS) }),
     Close("", "Properties") >>

(***************************************************************************)
(* getProperties                                                           *)
(***************************************************************************)
\* getByLocalName(doc, localName): textContent || undefined of the first
\* element of that local name
GetByLocalName(doc, localName) ==
  LET found == ByLocalName(doc, localName)
  IN IF found = {} \/ TextContent(doc, Min(found)) = <<>>
     THEN Undefined
     ELSE Defined(TextContent(doc, Min(found)))

\* const created = getByLocalName(doc, "created");
\* if (created) props.created = new Date(created);
GetDate(doc, localName) ==
  LET text == GetByLocalName(doc, localName)
  IN IF text.def THEN Defined(NewDate(text.v)) ELSE Undefined

\* getByLocalName(appDoc, ...) === literal
TextIs(value, literal) == value.def /\ value.v = literal

\* variant: linksDirty read as the text being "true"
ReadAppKeyDirect(doc, key) ==
  CASE key = "scale" -> Defined(TextIs(GetByLocalName(doc, "ScaleCrop"),
                                       << "true" >>))
    [] key = "linksDirty" ->
         Defined(TextIs(GetByLocalName(doc, "LinksUpToDate"), << "true" >>))
    [] OTHER -> GetByLocalName(doc, LocalOf(key))

\* the assignments of the extended-properties block
ReadAppKey(doc, key) ==
  CASE key = "scale" -> Defined(TextIs(GetByLocalName(doc, "ScaleCrop"),
                                       << "true" >>))
    [] key = "linksDirty" ->
         Defined(TextIs(GetByLocalName(doc, "LinksUpToDate"), << "false" >>))
    [] OTHER -> GetByLocalName(doc, LocalOf(key))

\* the assignments of the core block
ReadCoreKey(doc, key) ==
  IF key \in DateKeys THEN GetDate(doc, key)
                      ELSE GetByLocalName(doc, LocalOf(key))

\* the properties read from a loaded package: a part the package lacks
\* leaves its keys unassigned
ReadProperties(pkg) ==
  [k \in Keys |->
     IF ~HasFile(pkg, PartOf(k))
     THEN Undefined
     ELSE IF k \in AppKeys
          THEN ReadAppKey(Parse(pkg[AppPath].data), k)
          ELSE ReadCoreKey(Parse(pkg[CorePath].data), k)]

\* variant: no try/catch, the rejection of loadAsync is the outcome
GetPropertiesOfNoCatch(f) ==
  IF f.zipOk THEN ReadProperties(f.pkg) ELSE [kind |-> "error"]

\* getProperties(file): {} from the catch block when loadAsync rejects
GetPropertiesOf(f) ==
  IF f.zipOk THEN ReadProperties(f.pkg) ELSE EmptyProps

(***************************************************************************)
(* updateProperties: the helpers                                           *)
(***************************************************************************)
\* isBoolean ? (value ? "true" : "false") : String(value)
StrValue(value, isBoolean) ==
  IF isBoolean THEN (IF value.v THEN << "true" >> ELSE << "false" >>)
               ELSE value.v

\* variant: the early return written if (!value)
UpdateTagTruthy(doc, localName, value, namespace, isBoolean) ==
  IF ~value.def \/ (IF isBoolean THEN ~value.v ELSE value.v = <<>>)
  THEN doc
  ELSE LET found == ByLocalName(doc, localName)
           strValue == StrValue(value, isBoolean)
       IN IF found # {}
          THEN SetTextContent(doc, Min(found), strValue)
          ELSE AppendToRoot(doc, ElA("", localName, 1, namespace, {}, strValue))

\* updateTag(doc, localName, value, namespace, isBoolean)
UpdateTag(doc, localName, value, namespace, isBoolean) ==
  IF ~value.def
  THEN doc
  ELSE LET found == ByLocalName(doc, localName)
           strValue == StrValue(value, isBoolean)
       IN IF found # {}
          THEN SetTextContent(doc, Min(found), strValue)
          ELSE AppendToRoot(doc, ElA("", localName, 1, namespace, {}, strValue))

\* variant: the type attribute set on every date element
UpdateDateAllTyped(doc, localName, date) ==
  IF ~date.def
  THEN doc
  ELSE LET found == ByLocalName(doc, localName)
           withEl == IF found # {}
                     THEN doc
                     ELSE AppendToRoot(doc,
                            ElA(IF localName = "lastPrinted" THEN "cp"
                                                             ELSE "dcterms",
                                localName, 1,
                                IF localName \in { "created", "modified" }
                                THEN DctermsNS ELSE CpNS,
                                {}, <<>>))
           target == IF found # {} THEN Min(found) ELSE Len(withEl)
           withText == SetTextContent(withEl, target, ToISOString(date.v))
       IN IF localName # "lastPrinted" \/ TRUE
          THEN SetAttribute(withText, target, "xsi", "type", "dcterms:W3CDTF")
          ELSE withText

\* updateDate(localName, date) for a date toISOString() accepts
UpdateDate(doc, localName, date) ==
  IF ~date.def
  THEN doc
  ELSE LET found == ByLocalName(doc, localName)
           withEl == IF found # {}
                     THEN doc
                     ELSE AppendToRoot(doc,
                            ElA(IF localName = "lastPrinted" THEN "cp"
                                                             ELSE "dcterms",
                                localName, 1,
                                IF localName \in { "created", "modified" }
                                THEN DctermsNS ELSE CpNS,
                                {}, <<>>))
           target == IF found # {} THEN Min(found) ELSE Len(withEl)
           withText == SetTextContent(withEl, target, ToISOString(date.v))
       IN IF localName # "lastPrinted"
          THEN SetAttribute(withText, target, "xsi", "type", "dcterms:W3CDTF")
          ELSE withText

\* the ten updateTag calls on coreDoc
RECURSIVE UpdateCoreTags(_, _, _)
UpdateCoreTags(doc, set, i) ==
  IF i > Len(CoreTags)
  THEN doc
  ELSE UpdateCoreTags(UpdateTag(doc, CoreTags[i].local, set[CoreTags[i].key],
                                CoreTags[i].ns, FALSE),
                      set, i + 1)

\* the three updateDate calls
RECURSIVE UpdateDates(_, _, _)
UpdateDates(doc, set, i) ==
  IF i > Len(DateTags)
  THEN doc
  ELSE UpdateDates(UpdateDate(doc, DateTags[i], set[DateTags[i]]), set, i + 1)

\* one of the updateDate calls throws
DatesThrow(set) ==
  \E k \in DateKeys : set[k].def /\ ToISOStringThrows(set[k].v)

\* the six updateTag calls on appDoc
RECURSIVE UpdateAppTags(_, _, _)
UpdateAppTags(doc, set, i) ==
  IF i > Len(AppTags)
  THEN doc
  ELSE UpdateAppTags(UpdateTag(doc, AppTags[i].local, set[AppTags[i].key],
                               ExtNS, AppTags[i].isBoolean),
                     set, i + 1)

\* variant: no template, the absent part parsed as empty text
CoreDocNoTemplate(zip) ==
  IF HasFile(zip, CorePath) THEN Parse(zip[CorePath].data)
                            ELSE Parse(<<>>)

\* coreDoc: the part, or the template
CoreDocOf(zip) ==
  IF HasFile(zip, CorePath) THEN Parse(zip[CorePath].data)
                            ELSE Parse(CoreTemplate)

\* variant: no template, the absent part parsed as empty text
AppDocNoTemplate(zip) ==
  IF HasFile(zip, AppPath) THEN Parse(zip[AppPath].data)
                           ELSE Parse(<<>>)

\* appDoc: the part, or the template
AppDocOf(zip) ==
  IF HasFile(zip, AppPath) THEN Parse(zip[AppPath].data)
                           ELSE Parse(AppTemplate)

\* the text updateProperties writes for the core part, from the document
\* it starts with, for dates toISOString() accepts
RewrittenCore(doc, set) ==
  SerializeToString(UpdateDates(UpdateCoreTags(doc, set, 1), set, 1))

\* the text it writes for the extended-properties part
RewrittenApp(doc, set) == SerializeToString(UpdateAppTags(doc, set, 1))

(***************************************************************************)
(* Packages and property sets given to getProperties and updateProperties  *)
(***************************************************************************)
\* a core part with its usual elements; created holds the given text, and
\* modified comes without the type attribute
CoreFullText(created) ==
  << OpenA("cp", "coreProperties", CpNS,
           { Xmlns("cp", CpNS), Xmlns("dc", DcNS), Xmlns("dcterms", DctermsNS),
             Xmlns("dcmitype", DcmitypeNS), Xmlns("xsi", XsiNS) }),
     OpenA("dc", "title", DcNS, {}), Text(<< "Old", " ", "title" >>),
     Close("dc", "title"),
     EmptyA("dc", "subject", DcNS, {}),
     OpenA("dc", "creator", DcNS, {}), Text(<< "Ann" >>), Close("dc", "creator"),
     OpenA("cp", "lastModifiedBy", CpNS, {}), Text(<< "Bob" >>),
     Close("cp", "lastModifiedBy"),
     OpenA("cp", "lastPrinted", CpNS, {}), Text(IsoSeconds(7)),
     Close("cp", "lastPrinted"),
     OpenA("dcterms", "created", DctermsNS, { XsiType }), Text(created),
     Close("dcterms", "created"),
     OpenA("dcterms", "modified", DctermsNS, {}), Text(IsoSeconds(42)),
     Close("dcterms", "modified"),
     Close("cp", "coreProperties") >>

\* a core part that is not well-formed
CoreMalformedText ==
  << OpenA("cp", "coreProperties", CpNS, { Xmlns("cp", CpNS) }),
     OpenA("dc", "title", DcNS, {}), Text(<< "Old" >>) >>

\* an extended-properties part; scaleCrop and linksUpToDate are the texts of
\* its two boolean elements
AppFullText(scaleCrop, linksUpToDate) ==
  << OpenA("", "Properties", ExtNS, { Xmlns("", ExtNS), Xmlns("vt", VtNS) }),
     OpenA("", "Application", ExtNS, {}), Text(<< "Microsoft", " ", "Excel" >>),
     Close("", "Application"),
     OpenA("", "ScaleCrop", ExtNS, {}), Text(<< scaleCrop >>),
     Close("", "ScaleCrop"),
     OpenA("", "Company", ExtNS, {}), Text(<< "Old", " ", "Co" >>),
     Close("", "Company"),
     OpenA("", "LinksUpToDate", ExtNS, {}), Text(<< linksUpToDate >>),
     Close("", "LinksUpToDate"),
     OpenA("", "AppVersion", ExtNS, {}), Text(<< "16.0300" >>),
     Close("", "AppVersion"),
     Close("", "Properties") >>

\* an extended-properties part that is not well-formed
AppMalformedText ==
  << OpenA("", "Properties", ExtNS, {}), Close("", "Company") >>

\* a core part with two elements of local name title, the second one under
\* another prefix
CoreTwoTitlesText ==
  << OpenA("cp", "coreProperties", CpNS, { Xmlns("cp", CpNS), Xmlns("dc", DcNS) }),
     OpenA("dc", "title", DcNS, {}), Text(<< "Old", " ", "title" >>),
     Close("dc", "title"),
     OpenA("x", "title", "urn:x", {}), Text(<< "Other" >>), Close("x", "title"),
     Close("cp", "coreProperties") >>

CoreEntries ==
  { Absent, FileEntry(CoreTemplate), FileEntry(CoreMalformedText),
    FileEntry(CoreTwoTitlesText),
    FileEntry(CoreFullText(IsoSeconds(5))),
    FileEntry(CoreFullText(<< "yesterday" >>)) }
AppEntries ==
  { Absent, FileEntry(AppTemplate), FileEntry(AppMalformedText),
    FileEntry(AppFullText("false", "false")),
    FileEntry(AppFullText("true", "true")) }

PropertyPackages ==
  { [p \in Paths |->
       CASE p = WorkbookPath -> FileEntry(WorkbookText("", 1))
         [] p = Sheet1Path -> FileEntry(SheetText("", 1))
         [] p = Sheet2Path -> Absent
         [] p = SheetRelsPath -> FileEntry(RelsText)
         [] p = CorePath -> core
         [] p = AppPath -> app
         [] OTHER -> IF dirs THEN DirEntry ELSE Absent] :
      core \in CoreEntries, app \in AppEntries, dirs \in BOOLEAN }

\* the files given to getProperties and updateProperties: containers, and
\* files the zip codec rejects (a compound file among them)
PropertyFiles ==
  { [name |-> << "a", ".", "x", "l", "s", "x" >>, bytes |-> ZipSignature,
     zipOk |-> TRUE, pkg |-> g] : g \in PropertyPackages }
  \cup
  { [name |-> << "a", ".", "x", "l", "s", "x" >>, bytes |-> b,
     zipOk |-> FALSE, pkg |-> EmptyPackage] : b \in { OleSignature, <<>> } }

\* the values a key may be given
ValuesOf(key) ==
  IF key \in DateKeys
  THEN { Defined(InvalidDate) } \cup { Defined(DateOf(ms)) : ms \in Instants }
  ELSE IF key \in BooleanKeys
  THEN { Defined(TRUE), Defined(FALSE) }
  ELSE { Defined(<<>>), Defined(<< "New", " ", "value" >>) }

\* a property set with every key defined
FullProps(text, date, flag) ==
  [k \in Keys |->
     IF k \in DateKeys THEN Defined(date)
     ELSE IF k \in BooleanKeys THEN Defined(flag)
     ELSE Defined(text)]

\* the property sets: none of the keys, one of them, all of them
PropertySets ==
  { EmptyProps }
  \cup UNION { { [EmptyProps EXCEPT ![k] = v] : v \in ValuesOf(k) } :
                 k \in Keys }
  \cup { FullProps(<< "New" >>, DateOf(1500), b) : b \in BOOLEAN }
  \cup { FullProps(<<>>, DateOf(0), FALSE) }

(***************************************************************************)
(* State                                                                   *)
(***************************************************************************)
VARIABLES
  file,            \* the File passed to unprotectFile
  run,             \* which of the successive runs this is
  pc,              \* position in unprotectFile / processModernFile
  zip,             \* loadedZip: path -> entry
  wasProtected,    \* the local flag of processModernFile
  worksheetFiles,  \* the worksheet paths still to be processed
  progress,        \* the steps delivered to onProgress, in order
  result,          \* how the run ended: none, ok (blob, wasProtected), error
  bytesRead,       \* some bytes of the file were read
  loaderCalled,    \* zip.loadAsync was invoked
  written,         \* the paths rewritten with loadedZip.file(path, data)
  previous,        \* the earlier runs: each one's input package and result
  caught,          \* the error the outer catch of unprotectFile received
  newProps,        \* the PropertySet passed to updateProperties
  props,           \* the PropertySet getProperties returned
  app              \* the state of the App component, when it drives the run

vars ==
  << file, run, pc, zip, wasProtected, worksheetFiles, progress, result,
     bytesRead, loaderCalled, written, previous, caught, newProps, props,
     app >>

\* no error reached the outer catch / the error it received and whether it
\* threw a new Error in its place
NoCatch == [kind |-> "none"]
Caught(msg) ==
  [kind |-> "caught", message |-> msg, wrapped |-> OuterCatchWraps(msg)]

\* no PropertySet (the properties operations were not called)
NoProps == [kind |-> "none"]

\* the service called without the App component
NoApp == [kind |-> "none"]

\* the onProgress callback of App.processFile, (step) => setProcessStep(step),
\* called for each step delivered: the last one stays
OnProgress(a, before, after) ==
  IF a.kind = "app" /\ Len(after) > Len(before)
  THEN [a EXCEPT !.processStep = << after[Len(after)] >>]
  ELSE a

NoResult == [kind |-> "none"]
Failure(msg) == [kind |-> "error", message |-> msg]
Success(blob, flag) == [kind |-> "ok", blob |-> blob, wasProtected |-> flag]

Fresh ==
  /\ pc = "start"
  /\ zip = EmptyPackage
  /\ wasProtected = FALSE
  /\ worksheetFiles = <<>>
  /\ progress = <<>>
  /\ result = NoResult
  /\ bytesRead = FALSE
  /\ loaderCalled = FALSE
  /\ written = {}

Init ==
  /\ file \in Files
  /\ run = 1
  /\ previous = <<>>
  /\ caught = NoCatch
  /\ newProps = NoProps
  /\ props = NoProps
  /\ Fresh
  /\ app = NoApp

\* variant: the signature tested before the extension
CheckExtensionAfterSignature ==
  /\ pc = "start"
  /\ caught' = caught
  /\ IF IsEncrypted(Slice(file.bytes, HeaderLen))
     THEN pc' = "done" /\ result' = Failure(MsgEncrypted) /\ bytesRead' = TRUE
     ELSE /\ bytesRead' = bytesRead
          /\ IF ExtensionOk(file.name)
             THEN pc' = "header" /\ result' = result
             ELSE pc' = "done" /\ result' = Failure(MsgUnsupported)
  /\ UNCHANGED << file, run, zip, wasProtected, worksheetFiles, progress,
                  loaderCalled, written, previous, newProps, props >>
  /\ UNCHANGED app

\* 0. Validate Extension
CheckExtension ==
  /\ pc = "start"
  /\ caught' = caught
  /\ IF ExtensionOk(file.name)
     THEN pc' = "header" /\ result' = result
     ELSE pc' = "done" /\ result' = Failure(MsgUnsupported)
  /\ UNCHANGED << file, run, zip, wasProtected, worksheetFiles, progress,
                  bytesRead, loaderCalled, written, previous, newProps, props >>
  /\ UNCHANGED app

\* variant: the pre-check made inside processModernFile, after its first
\* progress step
ReadHeaderAfterProgress ==
  /\ pc = "header"
  /\ caught' = caught
  /\ bytesRead' = TRUE
  /\ progress' = Append(progress, "Reading file structure...")
  /\ LET headerBuffer == Slice(file.bytes, HeaderLen)
     IN IF IsEncrypted(headerBuffer) /\ HeaderCatchRethrows(MsgEncrypted)
        THEN pc' = "done" /\ result' = Failure(MsgEncrypted)
        ELSE pc' = "load" /\ result' = result
  /\ UNCHANGED << file, run, zip, wasProtected, worksheetFiles,
                  loaderCalled, written, previous, newProps, props >>
  /\ app' = OnProgress(app, progress, progress')

\* 1. Pre-check for an encrypted file: the try block throws the encrypted
\* error, the catch block rethrows it or swallows it
ReadHeader ==
  /\ pc = "header"
  /\ caught' = caught
  /\ bytesRead' = TRUE
  /\ LET headerBuffer == Slice(file.bytes, HeaderLen)
     IN IF IsEncrypted(headerBuffer) /\ HeaderCatchRethrows(MsgEncrypted)
        THEN pc' = "done" /\ result' = Failure(MsgEncrypted)
        ELSE pc' = "load" /\ result' = result
  /\ UNCHANGED << file, run, zip, wasProtected, worksheetFiles, progress,
                  loaderCalled, written, previous, newProps, props >>
  /\ UNCHANGED app

\* processModernFile: zip.loadAsync(file); its failure becomes the
\* corruption error, which passes through the outer catch of unprotectFile
LoadZip ==
  /\ pc = "load"
  /\ progress' = Append(progress, "Reading file structure...")
  /\ loaderCalled' = TRUE
  /\ bytesRead' = TRUE
  /\ IF file.zipOk
     THEN /\ pc' = "workbook" /\ zip' = file.pkg
          /\ UNCHANGED << result, caught >>
     ELSE /\ pc' = "done" /\ zip' = zip
          /\ caught' = Caught(MsgCorrupt)
          /\ result' = Failure(OuterCatch(MsgCorrupt))
  /\ UNCHANGED << file, run, wasProtected, worksheetFiles, written, previous,
                  newProps, props >>
  /\ app' = OnProgress(app, progress, progress')

\* 1. Remove Workbook Protection
AnalyzeWorkbook ==
  /\ pc = "workbook"
  /\ caught' = caught
  /\ LET doc == Parse(zip[WorkbookPath].data)
         found == /\ HasFile(zip, WorkbookPath)
                  /\ HasTags(GetElementsByTagName(doc, "workbookProtection"))
     IN IF found
        THEN /\ wasProtected' = TRUE
             /\ progress' = progress \o << "Analyzing workbook...",
                                           "Removing workbook protection..." >>
             /\ zip' = PutFile(zip, WorkbookPath,
                         SerializeToString(RemoveAll(doc, "workbookProtection")))
             /\ written' = written \cup { WorkbookPath }
        ELSE /\ progress' = Append(progress, "Analyzing workbook...")
             /\ UNCHANGED << wasProtected, zip, written >>
  /\ pc' = "scan"
  /\ UNCHANGED << file, run, worksheetFiles, result, bytesRead, loaderCalled,
                  previous, newProps, props >>
  /\ app' = OnProgress(app, progress, progress')

\* 2. collect the worksheet parts, in the order of the package's entries
ScanWorksheets ==
  /\ pc = "scan"
  /\ caught' = caught
  /\ progress' = Append(progress, "Scanning worksheets...")
  /\ zip' = Folder(zip)
  /\ worksheetFiles' \in Orders(WorksheetFileSet(zip))
  /\ pc' = IF worksheetFiles' = <<>> THEN "repackage" ELSE "sheets"
  /\ UNCHANGED << file, run, wasProtected, result, bytesRead, loaderCalled,
                  written, previous, newProps, props >>
  /\ app' = OnProgress(app, progress, progress')

\* variant: the sheet checkpoint delivered whatever was found before
SheetCheckpointAlways(flag) == << "Found protection in sheets..." >>

\* if (!wasProtected) onProgress(`Found protection in sheets...`)
SheetCheckpoint(flag) ==
  IF ~flag THEN << "Found protection in sheets..." >> ELSE <<>>

\* variant: the loop left (break) after the first sheet found protected
ProcessSheetBreak ==
  /\ pc = "sheets"
  /\ caught' = caught
  /\ worksheetFiles # <<>>
  /\ LET fullPath == FullPath(Head(worksheetFiles), WorksheetsFolder)
         doc == Parse(zip[fullPath].data)
     IN IF HasTags(GetElementsByTagName(doc, "sheetProtection"))
        THEN /\ progress' = progress \o SheetCheckpoint(wasProtected)
             /\ wasProtected' = TRUE
             /\ zip' = PutFile(zip, fullPath,
                         SerializeToString(RemoveAll(doc, "sheetProtection")))
             /\ written' = written \cup { fullPath }
             /\ worksheetFiles' = <<>>
        ELSE /\ worksheetFiles' = Tail(worksheetFiles)
             /\ UNCHANGED << progress, wasProtected, zip, written >>
  /\ pc' = IF worksheetFiles' = <<>> THEN "repackage" ELSE "sheets"
  /\ UNCHANGED << file, run, result, bytesRead, loaderCalled, previous,
                  newProps, props >>
  /\ app' = OnProgress(app, progress, progress')

\* one iteration of for (const wsPath of worksheetFiles)
ProcessSheet ==
  /\ pc = "sheets"
  /\ caught' = caught
  /\ worksheetFiles # <<>>
  /\ LET fullPath == FullPath(Head(worksheetFiles), WorksheetsFolder)
         doc == Parse(zip[fullPath].data)
     IN IF HasTags(GetElementsByTagName(doc, "sheetProtection"))
        THEN /\ progress' = progress \o SheetCheckpoint(wasProtected)
             /\ wasProtected' = TRUE
             /\ zip' = PutFile(zip, fullPath,
                         SerializeToString(RemoveAll(doc, "sheetProtection")))
             /\ written' = written \cup { fullPath }
        ELSE UNCHANGED << progress, wasProtected, zip, written >>
  /\ worksheetFiles' = Tail(worksheetFiles)
  /\ pc' = IF worksheetFiles' = <<>> THEN "repackage" ELSE "sheets"
  /\ UNCHANGED << file, run, result, bytesRead, loaderCalled, previous,
                  newProps, props >>
  /\ app' = OnProgress(app, progress, progress')

\* loadedZip.generateAsync, then the result
Repackage ==
  /\ pc = "repackage"
  /\ caught' = caught
  /\ progress' = progress \o << "Repackaging Excel file...", "Completed" >>
  /\ result' = Success(zip, wasProtected)
  /\ pc' = "done"
  /\ UNCHANGED << file, run, zip, wasProtected, worksheetFiles, bytesRead,
                  loaderCalled, written, previous, newProps, props >>
  /\ app' = OnProgress(app, progress, progress')

\* the output of a successful run is given to unprotectFile again
RunAgain ==
  /\ pc = "done"
  /\ result.kind = "ok"
  /\ run < MaxRuns
  /\ run' = run + 1
  /\ previous' = Append(previous, [input |-> file.pkg, result |-> result])
  /\ file' = [name |-> file.name, bytes |-> ZipSignature, zipOk |-> TRUE,
              pkg |-> result.blob]
  /\ pc' = "start"
  /\ zip' = EmptyPackage
  /\ wasProtected' = FALSE
  /\ worksheetFiles' = <<>>
  /\ progress' = <<>>
  /\ result' = NoResult
  /\ bytesRead' = FALSE
  /\ loaderCalled' = FALSE
  /\ written' = {}
  /\ caught' = NoCatch
  /\ UNCHANGED << newProps, props >>
  /\ UNCHANGED app

Next ==
  \/ CheckExtension
  \/ ReadHeader
  \/ LoadZip
  \/ AnalyzeWorkbook
  \/ ScanWorksheets
  \/ ProcessSheet
  \/ Repackage
  \/ RunAgain

Spec == Init /\ [][Next]_vars

(***************************************************************************)
(* Failures of the zip codec while a run is under way                      *)
(***************************************************************************)
\* messages of the errors the codec may raise: none, an ordinary one, and
\* one that names a password
LibraryMessages ==
  { <<>>, << "Corrupted", "zip" >>, << "Password", "required" >> }

\* processModernFile is waiting on the codec: file.async("string") of the
\* workbook part or of a worksheet part, or generateAsync
AwaitingCodec ==
  \/ pc = "workbook" /\ HasFile(zip, WorkbookPath)
  \/ pc = "sheets"
  \/ pc = "repackage"

\* variant: the last checkpoint delivered in a finally block
ProcessingFailsCompleted ==
  /\ AwaitingCodec
  /\ \E msg \in LibraryMessages :
       /\ caught' = Caught(msg)
       /\ result' = Failure(OuterCatch(msg))
  /\ progress' = Append(progress, "Completed")
  /\ pc' = "done"
  /\ UNCHANGED << file, run, zip, wasProtected, worksheetFiles,
                  bytesRead, loaderCalled, written, previous, newProps, props >>
  /\ app' = OnProgress(app, progress, progress')

\* the awaited promise rejects: the error leaves processModernFile and
\* reaches the outer catch of unprotectFile
ProcessingFails ==
  /\ AwaitingCodec
  /\ \E msg \in LibraryMessages :
       /\ caught' = Caught(msg)
       /\ result' = Failure(OuterCatch(msg))
  /\ pc' = "done"
  /\ UNCHANGED << file, run, zip, wasProtected, worksheetFiles, progress,
                  bytesRead, loaderCalled, written, previous, newProps, props >>
  /\ UNCHANGED app

NextFaults ==
  \/ Next
  \/ ProcessingFails

SpecFaults == Init /\ [][NextFaults]_vars

(***************************************************************************)
(* getProperties and updateProperties as processes                         *)
(***************************************************************************)
\* the Blob updateProperties resolves to
Updated(blob) == [kind |-> "blob", blob |-> blob]

\* what toISOString() throws
MsgInvalidTime == << "Invalid", "time", "value" >>

InitProps ==
  /\ file \in PropertyFiles
  /\ newProps \in PropertySets
  /\ props = NoProps
  /\ run = 1
  /\ previous = <<>>
  /\ caught = NoCatch
  /\ pc = "p_start"
  /\ zip = EmptyPackage
  /\ wasProtected = FALSE
  /\ worksheetFiles = <<>>
  /\ progress = <<>>
  /\ result = NoResult
  /\ bytesRead = FALSE
  /\ loaderCalled = FALSE
  /\ written = {}
  /\ app = NoApp

\* getProperties(file)
GetProperties ==
  /\ pc = "p_start"
  /\ loaderCalled' = TRUE
  /\ props' = GetPropertiesOf(file)
  /\ pc' = "p_got"
  /\ UNCHANGED << file, run, zip, wasProtected, worksheetFiles, progress,
                  result, bytesRead, written, previous, caught, newProps >>
  /\ UNCHANGED app

\* const loadedZip = await zip.loadAsync(file): a rejection leaves
\* updateProperties with the codec's error
UpdateLoad ==
  /\ pc = "p_start"
  /\ loaderCalled' = TRUE
  /\ IF file.zipOk
     THEN /\ zip' = file.pkg /\ pc' = "u_core" /\ result' = result
     ELSE /\ zip' = zip /\ pc' = "u_failed"
          /\ \E msg \in LibraryMessages : result' = Failure(msg)
  /\ UNCHANGED << file, run, wasProtected, worksheetFiles, progress,
                  bytesRead, written, previous, caught, newProps, props >>
  /\ UNCHANGED app

\* the core block: the document, the updateTag and updateDate calls, and
\* loadedZip.file(corePath, ...); a date toISOString() rejects ends the call
\* before the part is written
UpdateCore ==
  /\ pc = "u_core"
  /\ IF DatesThrow(newProps)
     THEN /\ result' = Failure(MsgInvalidTime)
          /\ pc' = "u_failed"
          /\ UNCHANGED << zip, written >>
     ELSE /\ zip' = PutFile(zip, CorePath,
                    SerializeToString(
                      UpdateDates(UpdateCoreTags(CoreDocOf(zip), newProps, 1),
                                  newProps, 1)))
          /\ written' = written \cup { CorePath }
          /\ pc' = "u_app"
          /\ result' = result
  /\ UNCHANGED << file, run, wasProtected, worksheetFiles, progress,
                  bytesRead, loaderCalled, previous, caught, newProps, props >>
  /\ UNCHANGED app

\* the extended-properties block
UpdateApp ==
  /\ pc = "u_app"
  /\ zip' = PutFile(zip, AppPath,
               SerializeToString(UpdateAppTags(AppDocOf(zip), newProps, 1)))
  /\ written' = written \cup { AppPath }
  /\ pc' = "u_gen"
  /\ UNCHANGED << file, run, wasProtected, worksheetFiles, progress, result,
                  bytesRead, loaderCalled, previous, caught, newProps, props >>
  /\ UNCHANGED app

\* variant: the package generated from the .xml entries only
UpdateGenerateXmlOnly ==
  /\ pc = "u_gen"
  /\ result' = Updated([p \in Paths |->
                          IF EndsWithXml(p) THEN zip[p] ELSE Absent])
  /\ pc' = "u_done"
  /\ UNCHANGED << file, run, zip, wasProtected, worksheetFiles, progress,
                  bytesRead, loaderCalled, written, previous, caught,
                  newProps, props >>
  /\ UNCHANGED app

\* return await loadedZip.generateAsync(...)
UpdateGenerate ==
  /\ pc = "u_gen"
  /\ result' = Updated(zip)
  /\ pc' = "u_done"
  /\ UNCHANGED << file, run, zip, wasProtected, worksheetFiles, progress,
                  bytesRead, loaderCalled, written, previous, caught,
                  newProps, props >>
  /\ UNCHANGED app

\* getProperties on the Blob updateProperties returned
ReadBack ==
  /\ pc = "u_done"
  /\ props' = GetPropertiesOf([file EXCEPT !.pkg = result.blob])
  /\ pc' = "p_back"
  /\ UNCHANGED << file, run, zip, wasProtected, worksheetFiles, progress,
                  result, bytesRead, loaderCalled, written, previous, caught,
                  newProps >>
  /\ UNCHANGED app

NextProps ==
  \/ GetProperties
  \/ UpdateLoad
  \/ UpdateCore
  \/ UpdateApp
  \/ UpdateGenerate
  \/ ReadBack

SpecProps == InitProps /\ [][NextProps]_vars

\* updateProperties is waiting on the codec: file.async("string") of a
\* property part the package has, or generateAsync
UpdateAwaitingCodec ==
  \/ pc = "u_core" /\ HasFile(zip, CorePath)
  \/ pc = "u_app" /\ HasFile(zip, AppPath)
  \/ pc = "u_gen"

\* variant: the rejection caught and the package generated as it stands
UpdateFailsPartial ==
  /\ UpdateAwaitingCodec
  /\ result' = Updated(zip)
  /\ pc' = "u_done"
  /\ UNCHANGED << file, run, zip, wasProtected, worksheetFiles, progress,
                  bytesRead, loaderCalled, written, previous, caught,
                  newProps, props >>
  /\ UNCHANGED app

\* the awaited promise rejects: updateProperties has no catch, the error
\* is its outcome
UpdateFails ==
  /\ UpdateAwaitingCodec
  /\ \E msg \in LibraryMessages : result' = Failure(msg)
  /\ pc' = "u_failed"
  /\ UNCHANGED << file, run, zip, wasProtected, worksheetFiles, progress,
                  bytesRead, loaderCalled, written, previous, caught,
                  newProps, props >>
  /\ UNCHANGED app

\* a part read rejects inside getProperties: the catch block returns {}
GetPropertiesFails ==
  /\ pc = "p_start"
  /\ file.zipOk
  /\ HasFile(file.pkg, CorePath) \/ HasFile(file.pkg, AppPath)
  /\ loaderCalled' = TRUE
  /\ props' = EmptyProps
  /\ pc' = "p_got"
  /\ UNCHANGED << file, run, zip, wasProtected, worksheetFiles, progress,
                  result, bytesRead, written, previous, caught, newProps >>
  /\ UNCHANGED app

\* both engines, with the failures of the codec
InitAll == Init \/ InitProps

NextAll ==
  \/ NextFaults
  \/ NextProps
  \/ UpdateFails
  \/ GetPropertiesFails

SpecAll == InitAll /\ [][NextAll]_vars

(***************************************************************************)
(* The App component: processFile and handleDownload                       *)
(***************************************************************************)
\* a state value that is null, or holds v
Null == [isNull |-> TRUE]
Some(v) == [isNull |-> FALSE, v |-> v]

DotXls == << ".", "x", "l", "s" >>
MsgUploadValid == << "Please", "upload", "a", "valid", "Excel", "file" >>
MsgProcessing == << "Processing", "your", "file..." >>
MsgRemoved == << "Protection", "detected", "and", "removed" >>
MsgNoProtection == << "No", "protection", "found" >>
MsgUnexpected == << "An", "unexpected", "error", "occurred." >>
MsgApplyFailed == << "Failed", "to", "apply", "properties:" >>
MsgDownloaded == << "Downloaded" >>

\* the useState values of App after mounting
AppMounted ==
  [kind |-> "app", notifications |-> <<>>, nextId |-> 1,
   isProcessing |-> FALSE, processedFile |-> Null, wasProtected |-> Null,
   originalFileName |-> <<>>, processStep |-> <<>>, showLegacyError |-> FALSE,
   currentFile |-> Null, fileProperties |-> Null, loadingId |-> Null,
   saved |-> Null]

\* addNotification(type, message): a new id, the notification appended
AddNotification(a, type, message) ==
  [a EXCEPT !.notifications =
              Append(@, [id |-> a.nextId, type |-> type, message |-> message]),
            !.nextId = @ + 1]

\* removeNotification(id)
RemoveNotification(a, id) ==
  [a EXCEPT !.notifications = SelectSeq(@, LAMBDA n : n.id # id)]

\* the packages uploaded to the App
AppPackages ==
  { [p \in Paths |->
       CASE p = WorkbookPath -> FileEntry(WorkbookText("", wb))
         [] p = Sheet1Path -> FileEntry(SheetText("", s1))
         [] p = Sheet2Path -> Absent
         [] p = SheetRelsPath -> FileEntry(RelsText)
         [] p = CorePath -> core
         [] p = AppPath -> appPart
         [] OTHER -> IF dirs THEN DirEntry ELSE Absent] :
      wb \in 0..1, s1 \in 0..1, core \in CoreEntries, appPart \in AppEntries,
      dirs \in BOOLEAN }

AppNames ==
  { << "a", ".", "x", "l", "s", "x" >>,
    << "A", ".", "X", "L", "S", "X" >>,
    << "a", ".", "x", "l", "s" >>,
    << "a", ".", "x", "l", "s", "x", ".", "b", "a", "k" >> }

AppFiles ==
  { [name |-> n, bytes |-> ZipSignature, zipOk |-> TRUE, pkg |-> g] :
      n \in AppNames, g \in AppPackages }
  \cup
  { [name |-> n, bytes |-> b, zipOk |-> FALSE, pkg |-> EmptyPackage] :
      n \in AppNames, b \in { OleSignature, << 0, 0, 0, 0 >> } }

InitApp ==
  /\ file \in AppFiles
  /\ app = AppMounted
  /\ newProps = NoProps
  /\ props = NoProps
  /\ run = 1
  /\ previous = <<>>
  /\ caught = NoCatch
  /\ pc = "a_start"
  /\ zip = EmptyPackage
  /\ wasProtected = FALSE
  /\ worksheetFiles = <<>>
  /\ progress = <<>>
  /\ result = NoResult
  /\ bytesRead = FALSE
  /\ loaderCalled = FALSE
  /\ written = {}

\* processFile(file) up to its first await: the resets, the two tests on the
\* name, the loading notification
ProcessFile ==
  /\ pc = "a_start"
  /\ LET reset == [app EXCEPT !.processedFile = Null, !.wasProtected = Null,
                              !.showLegacyError = FALSE,
                              !.currentFile = Some(file.name),
                              !.fileProperties = Null]
         lowerName == ToLowerCase(file.name)
     IN IF EndsWith(lowerName, DotXls)
        THEN /\ app' = [reset EXCEPT !.originalFileName = file.name,
                                     !.showLegacyError = TRUE]
             /\ pc' = "a_legacy"
        ELSE IF ~EndsWith(lowerName, DotXlsx)
        THEN /\ app' = AddNotification(reset, "error", MsgUploadValid)
             /\ pc' = "a_rejected"
        ELSE /\ app' = AddNotification(
                         [reset EXCEPT !.originalFileName = file.name,
                                       !.isProcessing = TRUE,
                                       !.processStep = << "Starting upload..." >>,
                                       !.loadingId = Some(reset.nextId)],
                         "loading", MsgProcessing)
             /\ pc' = "a_props"
  /\ UNCHANGED << file, run, zip, wasProtected, worksheetFiles, progress,
                  result, bytesRead, loaderCalled, written, previous, caught,
                  newProps, props >>

\* const props = await ExcelService.getProperties(file);
\* setFileProperties(props); then unprotectFile is called
ProcessFileGetProperties ==
  /\ pc = "a_props"
  /\ loaderCalled' = TRUE
  /\ props' = GetPropertiesOf(file)
  /\ app' = [app EXCEPT !.fileProperties = Some(props')]
  /\ pc' = "start"
  /\ UNCHANGED << file, run, zip, wasProtected, worksheetFiles, progress,
                  result, bytesRead, written, previous, caught, newProps >>

\* variant: the two resets of the finally block made on the success path only
ProcessFileSettledNoFinally ==
  /\ pc = "done"
  /\ app.kind = "app"
  /\ LET cleared == RemoveNotification(app, app.loadingId.v)
     IN IF result.kind = "ok"
        THEN app' = [AddNotification(
                       [cleared EXCEPT !.processedFile = Some(result.blob),
                                       !.wasProtected = Some(result.wasProtected)],
                       IF result.wasProtected THEN "success" ELSE "info",
                       IF result.wasProtected THEN MsgRemoved
                                              ELSE MsgNoProtection)
                     EXCEPT !.isProcessing = FALSE, !.processStep = <<>>]
        ELSE app' = AddNotification(
                      [cleared EXCEPT !.processedFile = Null,
                                      !.wasProtected = Null],
                      "error",
                      IF result.message = <<>> THEN MsgUnexpected
                                               ELSE result.message)
  /\ pc' = "a_idle"
  /\ UNCHANGED << file, run, zip, wasProtected, worksheetFiles, progress,
                  result, bytesRead, loaderCalled, written, previous, caught,
                  newProps, props >>

\* unprotectFile has resolved or rejected: the rest of the try block or the
\* catch block, then the finally block
ProcessFileSettled ==
  /\ pc = "done"
  /\ app.kind = "app"
  /\ LET cleared == RemoveNotification(app, app.loadingId.v)
         settled ==
           IF result.kind = "ok"
           THEN AddNotification(
                  [cleared EXCEPT !.processedFile = Some(result.blob),
                                  !.wasProtected = Some(result.wasProtected)],
                  IF result.wasProtected THEN "success" ELSE "info",
                  IF result.wasProtected THEN MsgRemoved ELSE MsgNoProtection)
           ELSE AddNotification(
                  [cleared EXCEPT !.processedFile = Null,
                                  !.wasProtected = Null],
                  "error",
                  IF result.message = <<>> THEN MsgUnexpected
                                           ELSE result.message)
     IN app' = [settled EXCEPT !.isProcessing = FALSE, !.processStep = <<>>]
  /\ pc' = "a_idle"
  /\ UNCHANGED << file, run, zip, wasProtected, worksheetFiles, progress,
                  result, bytesRead, loaderCalled, written, previous, caught,
                  newProps, props >>

\* handleDownload with a processed file and fileProperties set: the call of
\* updateProperties(processedFile, fileProperties) and its loadAsync
HandleDownload ==
  /\ pc = "a_idle"
  /\ ~app.processedFile.isNull
  /\ ~app.fileProperties.isNull
  /\ zip' = app.processedFile.v
  /\ newProps' = app.fileProperties.v
  /\ written' = {}
  /\ pc' = "u_core"
  /\ UNCHANGED << file, run, wasProtected, worksheetFiles, progress, result,
                  bytesRead, loaderCalled, previous, caught, props, app >>

\* updateProperties resolved: saveAs(finalBlob, newName) and the notification
DownloadSaved ==
  /\ pc = "u_done"
  /\ app.kind = "app"
  /\ app' = AddNotification([app EXCEPT !.saved = Some(result.blob)],
                            "success", MsgDownloaded)
  /\ pc' = "a_saved"
  /\ UNCHANGED << file, run, zip, wasProtected, worksheetFiles, progress,
                  result, bytesRead, loaderCalled, written, previous, caught,
                  newProps, props >>

\* updateProperties rejected: the notification, nothing saved
DownloadFailed ==
  /\ pc = "u_failed"
  /\ app.kind = "app"
  /\ app' = AddNotification(app, "error", MsgApplyFailed \o result.message)
  /\ pc' = "a_failed"
  /\ UNCHANGED << file, run, zip, wasProtected, worksheetFiles, progress,
                  result, bytesRead, loaderCalled, written, previous, caught,
                  newProps, props >>

NextApp ==
  \/ ProcessFile
  \/ ProcessFileGetProperties
  \/ CheckExtension
  \/ ReadHeader
  \/ LoadZip
  \/ AnalyzeWorkbook
  \/ ScanWorksheets
  \/ ProcessSheet
  \/ Repackage
  \/ ProcessingFails
  \/ ProcessFileSettled
  \/ HandleDownload
  \/ UpdateCore
  \/ UpdateApp
  \/ UpdateGenerate
  \/ DownloadSaved
  \/ DownloadFailed

SpecApp == InitApp /\ [][NextApp]_vars

TypeOK ==
  /\ run \in 1..MaxRuns
  /\ pc \in { "start", "header", "load", "workbook", "scan", "sheets",
              "repackage", "done" }
  /\ wasProtected \in BOOLEAN
  /\ result.kind \in { "none", "ok", "error" }

(***************************************************************************)
(* Vocabulary of the properties, stated on texts and names directly        *)
(***************************************************************************)
Finished == pc = "done"
Succeeded == pc = "done" /\ result.kind = "ok"

\* the elements of a part's text, whatever their prefix, with a local name
ElementsNamed(entry, local) ==
  IF entry.kind = "file"
  THEN { i \in 1..Len(Parse(entry.data)) : Parse(entry.data)[i].local = local }
  ELSE {}

\* the same, restricted to the elements that carry a prefix / no prefix
PrefixedNamed(entry, local) ==
  { i \in ElementsNamed(entry, local) : Parse(entry.data)[i].prefix # "" }
PlainNamed(entry, local) ==
  { i \in ElementsNamed(entry, local) : Parse(entry.data)[i].prefix = "" }

\* the worksheet parts of a package: xl/worksheets/....xml
WorksheetParts(pkg) ==
  { p \in { Sheet1Path, Sheet2Path } : pkg[p].kind = "file" }

\* the worksheet parts that hold a sheetProtection marker
ProtectedSheets(pkg) ==
  { p \in WorksheetParts(pkg) : ElementsNamed(pkg[p], "sheetProtection") # {} }

WorkbookMarked(pkg) == ElementsNamed(pkg[WorkbookPath], "workbookProtection") # {}

MarkerExisted(pkg) == WorkbookMarked(pkg) \/ ProtectedSheets(pkg) # {}

\* every part of pkg is in out with the same content
PartsUnchanged(pkg, out) ==
  \A p \in Paths : pkg[p].kind = "file" => out[p] = pkg[p]

\* the name ends in ".xlsx", letters compared without case
IsXlsxName(name) ==
  /\ Len(name) >= 5
  /\ name[Len(name) - 4] = "."
  /\ name[Len(name) - 3] \in { "x", "X" }
  /\ name[Len(name) - 2] \in { "l", "L" }
  /\ name[Len(name) - 1] \in { "s", "S" }
  /\ name[Len(name)] \in { "x", "X" }

\* the first 8 bytes are D0 CF 11 E0 A1 B1 1A E1
HasOleSignature(f) ==
  Len(f.bytes) >= 8 /\ SubSeq(f.bytes, 1, 8) = OleSignature

(***************************************************************************)
(* Properties                                                              *)
(***************************************************************************)

\* C1: on success, wasProtected is true iff the input package held a
\* workbookProtection element in the workbook part or a sheetProtection
\* element in some worksheet part.
C1_WasProtectedIffMarker ==
  Succeeded => (result.wasProtected <=> MarkerExisted(file.pkg))

\* C2: a package without markers gives wasProtected = false and an output
\* whose parts all have the input's content; and only a part in which a
\* marker was found is ever rewritten, every other part keeping its content.
C2_NoMarkerNoRewrite ==
  /\ \A p \in written :
       \/ p = WorkbookPath /\ PlainNamed(file.pkg[p], "workbookProtection") # {}
       \/ p \in WorksheetParts(file.pkg)
            /\ PlainNamed(file.pkg[p], "sheetProtection") # {}
  /\ Succeeded =>
       /\ \A p \in Paths \ written :
            file.pkg[p].kind = "file" => result.blob[p] = file.pkg[p]
       /\ ~MarkerExisted(file.pkg) =>
            ~result.wasProtected /\ PartsUnchanged(file.pkg, result.blob)

C2_Witness ==
  /\ Succeeded
  /\ ~MarkerExisted(file.pkg)
  /\ file.pkg[WorkbookPath].kind = "file"
  /\ WorksheetParts(file.pkg) = { Sheet1Path, Sheet2Path }
  /\ written = {}

\* C3: with sheetProtection markers in N >= 1 of the M worksheet parts, after
\* the run the N parts hold no sheetProtection element, the other M-N
\* worksheet parts are unchanged, and wasProtected = true.
C3_SheetMarkersStripped ==
  (Succeeded /\ ProtectedSheets(file.pkg) # {}) =>
    /\ result.wasProtected
    /\ \A p \in ProtectedSheets(file.pkg) :
         ElementsNamed(result.blob[p], "sheetProtection") = {}
    /\ \A p \in WorksheetParts(file.pkg) \ ProtectedSheets(file.pkg) :
         result.blob[p] = file.pkg[p]

\* C4: with workbookProtection in the workbook part and no sheetProtection
\* in the worksheet parts, wasProtected = true and the rebuilt workbook part
\* holds no workbookProtection element.
C4_WorkbookMarkerStripped ==
  (Succeeded /\ WorkbookMarked(file.pkg) /\ ProtectedSheets(file.pkg) = {}) =>
    /\ result.wasProtected
    /\ ElementsNamed(result.blob[WorkbookPath], "workbookProtection") = {}

\* C5: a run on the output of an earlier successful run succeeds with
\* wasProtected = false and with every entry as in that output.
C5_Idempotent ==
  (Finished /\ run >= 2) =>
    /\ result.kind = "ok"
    /\ ~result.wasProtected
    /\ result.blob = file.pkg
    /\ file.pkg = previous[run - 1].result.blob

C5_Witness ==
  /\ Succeeded
  /\ run = 2
  /\ previous[1].result.wasProtected
  /\ Cardinality(PlainNamed(previous[1].input[WorkbookPath],
                            "workbookProtection")) >= 2
  /\ PlainNamed(previous[1].input[Sheet1Path], "sheetProtection") # {}

\* C6: a marker written with a namespace prefix is found, removed and counted
\* like an unprefixed one.
C6_PrefixedMarkerStripped ==
  (Succeeded /\ \/ PrefixedNamed(file.pkg[WorkbookPath], "workbookProtection") # {}
                \/ \E p \in WorksheetParts(file.pkg) :
                     PrefixedNamed(file.pkg[p], "sheetProtection") # {}) =>
    /\ result.wasProtected
    /\ ElementsNamed(result.blob[WorkbookPath], "workbookProtection") = {}
    /\ \A p \in WorksheetParts(file.pkg) :
         ElementsNamed(result.blob[p], "sheetProtection") = {}

\* C7 as stated: every input whose first 8 bytes are the compound-file
\* signature ends with the encrypted-package error.
C7_SignatureAlwaysEncryptedError ==
  (Finished /\ HasOleSignature(file)) => result = Failure(MsgEncrypted)

\* C7: every input named .xlsx whose first 8 bytes are the compound-file
\* signature ends with the encrypted-package error, whatever follows them.
C7_XlsxSignatureEncryptedError ==
  (pc \notin { "start", "header" } /\ IsXlsxName(file.name)
     /\ HasOleSignature(file)) =>
    pc = "done" /\ result = Failure(MsgEncrypted)

C7_Witness ==
  /\ Finished
  /\ HasOleSignature(file)
  /\ file.zipOk
  /\ MarkerExisted(file.pkg)
  /\ result = Failure(MsgEncrypted)

\* C8: when the input is classified as encrypted, the loader was never
\* invoked, no progress step was delivered and there is no output.
C8_EncryptedFailsAtOnce ==
  (result.kind = "error" /\ Includes(result.message, PasswordToOpen)) =>
    /\ pc = "done"
    /\ ~loaderCalled
    /\ progress = <<>>
    /\ zip = EmptyPackage
    /\ written = {}

C8_Witness ==
  /\ result = Failure(MsgEncrypted)
  /\ bytesRead
  /\ file.zipOk

\* C9: a file whose name does not end in .xlsx (without regard to case) is
\* rejected with the unsupported-format error before any byte is read, the
\* loader invoked or a progress step delivered.
C9_ExtensionRejectedFirst ==
  (pc # "start" /\ ~IsXlsxName(file.name)) =>
    /\ pc = "done"
    /\ result = Failure(MsgUnsupported)
    /\ ~bytesRead
    /\ ~loaderCalled
    /\ progress = <<>>

C9_Witness ==
  /\ Finished
  /\ file.name = << "a", ".", "x", "l", "s", "x", ".", "b", "a", "k" >>
  /\ file.zipOk
  /\ result = Failure(MsgUnsupported)

\* C10: an input named .xlsx that is no zip container and does not start with
\* the 8-byte signature (also one shorter than 8 bytes) ends with the
\* corruption error, never with the encrypted-package error.
C10_NonZipIsCorrupt ==
  (Finished /\ IsXlsxName(file.name) /\ ~file.zipOk /\ ~HasOleSignature(file)) =>
    /\ result = Failure(MsgCorrupt)
    /\ ~Includes(result.message, PasswordToOpen)
    /\ loaderCalled

C10_Witness ==
  /\ Finished
  /\ file.bytes = << 0, 0, 0, 0 >>
  /\ IsXlsxName(file.name)
  /\ result = Failure(MsgCorrupt)

\* the text of a part is XML that fails to parse
FailsToParse(entry) == entry.kind = "file" /\ Parse(entry.data) = ParserErrorDoc

\* the workbook part or some worksheet part of the package fails to parse
HasMalformedPart(pkg) ==
  \E p \in { WorkbookPath } \cup WorksheetParts(pkg) : FailsToParse(pkg[p])

\* C11: a package whose workbook part or some worksheet part fails to parse
\* ends with the corruption error, never with a successful result.
C11_MalformedPartFails ==
  (Finished /\ loaderCalled /\ file.zipOk /\ HasMalformedPart(file.pkg)) =>
    result = Failure(MsgCorrupt)

\* a message that names a password
PasswordRelated(msg) == \E i \in 1..Len(msg) : msg[i] = "Password"

\* C12 as stated: a failure during processing that is not password-related
\* is replaced by the one generic message; a password-related one is
\* propagated as it is.
C12_OtherFailuresGeneric ==
  (result.kind = "error" /\ caught.kind = "caught") =>
    IF PasswordRelated(caught.message)
    THEN result.message = caught.message /\ ~caught.wrapped
    ELSE result.message = MsgGeneric

\* C12: a failure during processing that is not password-related is thrown
\* again as a new error with the same message, the generic message standing
\* in only for an empty one; a password-related one is propagated as it is.
C12_OtherFailuresKeepMessage ==
  (result.kind = "error" /\ caught.kind = "caught") =>
    IF PasswordRelated(caught.message)
    THEN result.message = caught.message /\ ~caught.wrapped
    ELSE /\ caught.wrapped
         /\ result.message =
              IF caught.message = <<>> THEN MsgGeneric ELSE caught.message

C12_Witness ==
  /\ result = Failure(<< "Corrupted", "zip" >>)
  /\ caught.kind = "caught"
  /\ caught.wrapped
  /\ written # {}

\* the checkpoints in their fixed order
Checkpoints ==
  << "Reading file structure...", "Analyzing workbook...",
     "Removing workbook protection...", "Scanning worksheets...",
     "Found protection in sheets...", "Repackaging Excel file...",
     "Completed" >>
Unconditional == { 1, 2, 4, 6, 7 }

\* the steps of s that are checkpoint c
Occurrences(s, c) == { i \in 1..Len(s) : s[i] = c }

\* s is a subsequence of the fixed order: only checkpoints, each later one
\* further down the order
InFixedOrder(s) ==
  /\ \A i \in 1..Len(s) : \E c \in 1..Len(Checkpoints) : s[i] = Checkpoints[c]
  /\ \A i, j \in 1..Len(s) : \A c, d \in 1..Len(Checkpoints) :
       (i < j /\ s[i] = Checkpoints[c] /\ s[j] = Checkpoints[d]) => c < d

\* C14: on a successful run the steps delivered are a subsequence of the
\* fixed order with each unconditional checkpoint exactly once and Completed
\* last; a run that fails never delivers Completed.
C14_ProgressOrder ==
  /\ Succeeded =>
       /\ InFixedOrder(progress)
       /\ \A c \in Unconditional :
            Cardinality(Occurrences(progress, Checkpoints[c])) = 1
       /\ \A c \in 1..Len(Checkpoints) :
            Cardinality(Occurrences(progress, Checkpoints[c])) <= 1
       /\ progress[Len(progress)] = "Completed"
  /\ result.kind = "error" => Occurrences(progress, "Completed") = {}

C14_Witness ==
  /\ Succeeded
  /\ Len(progress) = 6
  /\ Occurrences(progress, "Found protection in sheets...") # {}
  /\ ProtectedSheets(file.pkg) = { Sheet1Path, Sheet2Path }

Delivered(c) == Occurrences(progress, c) # {}

\* C15 as stated: the workbook checkpoint is delivered iff the workbook part
\* held a workbookProtection marker, the sheet checkpoint iff some worksheet
\* part held a sheetProtection marker.
C15_ConditionalCheckpoints ==
  Succeeded =>
    /\ Delivered("Removing workbook protection...") <=> WorkbookMarked(file.pkg)
    /\ Delivered("Found protection in sheets...")
         <=> ProtectedSheets(file.pkg) # {}

\* C13: a run of either engine that yields a package yields the package as
\* it stands after every mutation (no worksheet left to process; both
\* property parts written); a run that fails yields no package; and the
\* file handed in is never changed (a later run is handed a new file, the
\* output of the run before).
C13_CompleteOrNothing ==
  /\ result.kind = "ok" =>
       pc = "done" /\ worksheetFiles = <<>> /\ result.blob = zip
  /\ result.kind = "blob" =>
       { CorePath, AppPath } \subseteq written /\ result.blob = zip
  /\ result.kind = "error" => DOMAIN result = { "kind", "message" }

C13_Atomic ==
  /\ []C13_CompleteOrNothing
  /\ [][file' # file =>
          /\ result.kind = "ok"
          /\ run' = run + 1
          /\ file'.pkg = result.blob]_vars

C13_Witness ==
  /\ result.kind = "error"
  /\ written # {}
  /\ pc = "u_failed"

\* updateProperties has returned a Blob
UpdateDone == pc \in { "u_done", "p_back" } /\ result.kind = "blob"

\* the document updateProperties starts from for a part of its input
InputDoc(path) ==
  IF HasFile(file.pkg, path) THEN Parse(file.pkg[path].data)
  ELSE IF path = CorePath THEN Parse(CoreTemplate) ELSE Parse(AppTemplate)

\* the document of a part of the Blob
OutputDoc(path) == Parse(result.blob[path].data)

\* the elements of a local name, in document order
ElementsOf(doc, localName) ==
  SelectSeq(doc, LAMBDA e : e.local = localName)

\* the text updateProperties writes for a defined key
WrittenText(key) ==
  IF key \in DateKeys THEN ToISOString(newProps[key].v)
                      ELSE StrValue(newProps[key], key \in BooleanKeys)

\* C16 as stated: reading back the package updateProperties returned gives,
\* for every key written with a defined value, the value written.
C16_RoundTrip ==
  pc = "p_back" =>
    \A k \in Keys : newProps[k].def => props[k] = newProps[k]

C18_OnlyPropertyPartsChange ==
  UpdateDone =>
    \A p \in Paths \ { CorePath, AppPath } :
      ~p.dir => result.blob[p] = file.pkg[p]

C18_Witness ==
  /\ UpdateDone
  /\ HasFile(file.pkg, SheetRelsPath)
  /\ HasFile(file.pkg, CorePath)
  /\ result.blob[CorePath] # file.pkg[CorePath]
  /\ result.blob[AppPath] # file.pkg[AppPath]

\* a property part the package has not, or one that fails to parse
AbsentOrMalformed(pkg, path) == ~HasFile(pkg, path) \/ FailsToParse(pkg[path])

C20_AppPartCreated ==
  /\ (pc = "p_got" /\ ~HasFile(file.pkg, AppPath)) =>
       \A k \in AppKeys : props[k] = Undefined
  /\ (UpdateDone /\ ~HasFile(file.pkg, AppPath)
        /\ \E k \in AppKeys : newProps[k].def) =>
       /\ HasFile(result.blob, AppPath)
       /\ OutputDoc(AppPath)[1] = Parse(AppTemplate)[1]
       /\ \A k \in AppKeys :
            newProps[k].def =>
              \E i \in ByLocalName(OutputDoc(AppPath), LocalOf(k)) :
                /\ OutputDoc(AppPath)[i].depth = 1
                /\ OutputDoc(AppPath)[i].ns = ExtNS
                /\ OutputDoc(AppPath)[i].text = WrittenText(k)

C20_Witness ==
  /\ UpdateDone
  /\ ~HasFile(file.pkg, AppPath)
  /\ newProps["company"] = Defined(<< "New", " ", "value" >>)
  /\ ~newProps["title"].def
  /\ Len(OutputDoc(AppPath)) = 2

\* the attributes named xsi:type of an element
TypeAttrs(el) == { a \in el.attrs : a.prefix = "xsi" /\ a.local = "type" }

\* C21: after updateProperties wrote a date key, the first element of that
\* local name holds the ISO date-time text of the value; for created and
\* modified it carries xsi:type = dcterms:W3CDTF, whether it was in the input
\* or was created; the attributes of lastPrinted are those it had (none for
\* a created one).
C21_DateElements ==
  UpdateDone =>
    \A k \in DateKeys :
      newProps[k].def =>
        LET in == ElementsOf(InputDoc(CorePath), k)
            out == ElementsOf(OutputDoc(CorePath), k)
        IN /\ out # <<>>
           /\ out[1].text = ToISOString(newProps[k].v)
           /\ k # "lastPrinted" => TypeAttrs(out[1]) = { XsiType }
           /\ k = "lastPrinted" =>
                out[1].attrs = IF in = <<>> THEN {} ELSE in[1].attrs

C21_Witness ==
  /\ UpdateDone
  /\ \A k \in DateKeys : newProps[k] = Defined(DateOf(1500))
  /\ ElementsOf(InputDoc(CorePath), "modified") # <<>>
  /\ TypeAttrs(ElementsOf(InputDoc(CorePath), "modified")[1]) = {}
  /\ ElementsOf(OutputDoc(CorePath), "lastPrinted")[1].text
       = << Minute, "0", "1", ".", "5", "0", "0", "Z" >>

\* the text of the first LinksUpToDate element of a part, <<>> without one
LinksUpToDateText(entry) ==
  LET found == ElementsOf(Parse(entry.data), "LinksUpToDate")
  IN IF found = <<>> THEN <<>> ELSE found[1].text

\* C22: getProperties gives linksDirty = true exactly when the text of
\* LinksUpToDate is "false"; updateProperties writes "true" exactly when
\* linksDirty is true; so a defined linksDirty b reads back as not b.
C22_LinksDirtyInverted ==
  /\ (pc = "p_got" /\ HasFile(file.pkg, AppPath)) =>
       props["linksDirty"]
         = Defined(LinksUpToDateText(file.pkg[AppPath]) = << "false" >>)
  /\ (UpdateDone /\ newProps["linksDirty"].def) =>
       (LinksUpToDateText(result.blob[AppPath]) = << "true" >>)
         <=> newProps["linksDirty"].v
  /\ (pc = "p_back" /\ newProps["linksDirty"].def) =>
       props["linksDirty"] = Defined(~newProps["linksDirty"].v)

C22_Witness ==
  /\ pc = "p_back"
  /\ newProps["linksDirty"] = Defined(TRUE)
  /\ props["linksDirty"] = Defined(FALSE)
  /\ HasFile(file.pkg, AppPath)
  /\ LinksUpToDateText(file.pkg[AppPath]) = << "false" >>

\* C23 as stated: in unprotectFile, getProperties and updateProperties the
\* zip loader is invoked only after the first 8 bytes of the input were read
\* and found not to be the compound-file signature.
C23_DetectorGatesLoader ==
  loaderCalled => (bytesRead /\ ~HasOleSignature(file))

\* C25: the package updateProperties returns has both property parts, for
\* every input and every property set; both were written; a part the input
\* lacked has the root of its template, namespace declarations included.
C25_BothPartsWritten ==
  UpdateDone =>
    /\ HasFile(result.blob, CorePath) /\ HasFile(result.blob, AppPath)
    /\ { CorePath, AppPath } \subseteq written
    /\ ~HasFile(file.pkg, CorePath) =>
         OutputDoc(CorePath)[1] = Parse(CoreTemplate)[1]
    /\ ~HasFile(file.pkg, AppPath) =>
         OutputDoc(AppPath)[1] = Parse(AppTemplate)[1]

C25_Witness ==
  /\ UpdateDone
  /\ newProps = EmptyProps
  /\ ~HasFile(file.pkg, CorePath)
  /\ ~HasFile(file.pkg, AppPath)
  /\ Xmlns("dcterms", DctermsNS) \in OutputDoc(CorePath)[1].attrs

\* the marker removed from a part: workbookProtection in the workbook part,
\* sheetProtection in a worksheet part
MarkerOf(path) ==
  IF path = WorkbookPath THEN "workbookProtection" ELSE "sheetProtection"

\* the output of unprotectFile as a function of the input package alone
ExpectedBlob(pkg) ==
  [p \in Paths |->
     IF /\ p \in { WorkbookPath } \cup WorksheetParts(pkg)
        /\ PlainNamed(pkg[p], MarkerOf(p)) # {}
     THEN FileEntry(SerializeToString(RemoveAll(Parse(pkg[p].data), MarkerOf(p))))
     ELSE Folder(pkg)[p]]

ExpectedFlag(pkg) ==
  \E p \in { WorkbookPath } \cup WorksheetParts(pkg) :
    PlainNamed(pkg[p], MarkerOf(p)) # {}

\* C26: no worksheet part is listed or rewritten before the workbook part
\* has been dealt with, and the result of a successful run is a function of
\* the input package: the same for every order of the worksheet parts.
C26_OrderIndependent ==
  /\ pc \in { "start", "header", "load", "workbook" } =>
       /\ worksheetFiles = <<>>
       /\ written \cap WorksheetParts(file.pkg) = {}
  /\ written \cap WorksheetParts(file.pkg) # {} =>
       Occurrences(progress, "Analyzing workbook...") # {}
  /\ Succeeded =>
       /\ result.blob = ExpectedBlob(file.pkg)
       /\ result.wasProtected = ExpectedFlag(file.pkg)

C26_Witness ==
  /\ pc = "sheets"
  /\ Len(worksheetFiles) = 2
  /\ FullPath(worksheetFiles[1], WorksheetsFolder) = Sheet2Path
  /\ ProtectedSheets(file.pkg) = { Sheet1Path, Sheet2Path }
  /\ WorkbookPath \in written

\* the keys of a part that are defined in newProps and have no element in
\* the input
KeysCreated(path) ==
  { k \in Keys : /\ PartOf(k) = path
                 /\ newProps[k].def
                 /\ ElementsOf(InputDoc(path), LocalOf(k)) = <<>> }

EntryPaths(pkg) == { p \in Paths : pkg[p].kind # "absent" }

\* C28 as stated: the package a successful unprotectFile returns has the
\* entry paths of the input package, no more and no fewer.
C28_EntryPathsPreserved ==
  Succeeded => EntryPaths(result.blob) = EntryPaths(file.pkg)

\* C29: a file whose name does not end in .xlsx ends with the
\* unsupported-format error without a byte of it being read, whatever its
\* first bytes; the encrypted-package error is the outcome only of files
\* named .xlsx.
C29_ExtensionBeforeSignature ==
  /\ (Finished /\ ~IsXlsxName(file.name)) =>
       result = Failure(MsgUnsupported) /\ ~bytesRead
  /\ (Finished /\ result = Failure(MsgEncrypted)) => IsXlsxName(file.name)

C29_Witness ==
  /\ Finished
  /\ HasOleSignature(file)
  /\ file.name = << "a", ".", "x", "l", "s" >>
  /\ result = Failure(MsgUnsupported)

\* a part of the uploaded package that holds no protection marker
HoldsNoMarker(pkg, path) ==
  /\ pkg[path].kind = "file"
  /\ ElementsNamed(pkg[path], "workbookProtection") = {}
  /\ ElementsNamed(pkg[path], "sheetProtection") = {}

\* C24 as stated: the package saved by handleDownload after processFile,
\* with no property edited in between, has every part of the upload that
\* held no marker with the same content, docProps/core.xml and
\* docProps/app.xml among them, and no part the upload had not.
C24_DownloadKeepsOtherParts ==
  pc = "a_saved" =>
    \A p \in { q \in Paths : ~q.dir } :
      /\ HoldsNoMarker(file.pkg, p) => app.saved.v[p] = file.pkg[p]
      /\ file.pkg[p].kind = "absent" => app.saved.v[p].kind = "absent"

\* the name ends in ".xls", letters compared without case
IsXlsName(name) == EndsWith(ToLowerCase(name), DotXls)

NotificationsOf(type) == SelectSeq(app.notifications, LAMBDA n : n.type = type)

\* C30: once processFile has finished for a file named .xlsx, isProcessing is
\* false, processStep is empty and no loading notification is left; after a
\* failure processedFile and wasProtected are null and an error notification
\* carries the message; after a success processedFile is the package
\* returned and wasProtected its flag. For a file named .xls only the legacy
\* notice is set and the service has not been invoked.
C30_ProcessFileSettles ==
  /\ pc = "a_idle" =>
       /\ IsXlsxName(file.name)
       /\ ~app.isProcessing
       /\ app.processStep = <<>>
       /\ NotificationsOf("loading") = <<>>
       /\ result.kind = "error" =>
            /\ app.processedFile = Null /\ app.wasProtected = Null
            /\ Len(NotificationsOf("error")) = 1
            /\ NotificationsOf("error")[1].message = result.message
       /\ result.kind # "error" =>
            /\ result.kind = "ok"
            /\ app.processedFile = Some(result.blob)
            /\ app.wasProtected = Some(result.wasProtected)
            /\ result.wasProtected \in BOOLEAN
            /\ NotificationsOf("error") = <<>>
  /\ (pc # "a_start" /\ IsXlsName(file.name)) =>
       /\ pc = "a_legacy"
       /\ app.showLegacyError
       /\ app.notifications = <<>>
       /\ ~app.isProcessing
       /\ ~loaderCalled /\ ~bytesRead
       /\ props = NoProps /\ result = NoResult
  /\ app.isProcessing =>
       pc \in { "a_props", "start", "header", "load", "workbook", "scan",
                "sheets", "repackage", "done" }

C30_Witness ==
  /\ pc = "a_idle"
  /\ result.kind = "error"
  /\ written # {}
  /\ progress # <<>>
  /\ Len(app.notifications) = 1

====
